---------------------------- MODULE Spec2Model ----------------------------
(***************************************************************************)
(* Model of the VCCA webview client: the reconnecting Transport            *)
(* (WebSocketClient, extension/src/webview/services/websocket.ts), and the *)
(* capability call bridge made of the webview message handlers             *)
(* (extension/src/webview/App.tsx) and the extension host's tool_usage     *)
(* handler (ChatViewProvider, unnamed/part_000).                           *)
(***************************************************************************)
EXTENDS Integers, Sequences, FiniteSets, TLC

(***************************************************************************)
(* Bounds of the model.                                                    *)
(***************************************************************************)
MaxSockets == 3
MaxCalls == 2
MaxStray == 1
MaxTicks == 1
MaxSubscribers == 2
MaxEvents == 3
MaxMessages == 2
MaxProcs == 4

(***************************************************************************)
(* Program constants.                                                      *)
(***************************************************************************)
maxReconnectDelay == 10000
BaseDelay == 1000
ExecTimeout == 30000

VARIABLES
    sockets,            \* readyState of every WebSocket created by connect()
    ws,                 \* this.ws: index into sockets, 0 = null
    reconnectAttempts,  \* this.reconnectAttempts
    timers,             \* delays of the pending setTimeout reconnect callbacks
    lastStatus,         \* last status handed to notifyStatus
    connectionAttempted,\* connectionAttempted.current (App.tsx)
    globalWsClient,     \* module-level globalWsClient is set (App.tsx)
    uncleanRun,         \* history: consecutive unclean closes
    uncleanSinceOpen,   \* history: unclean closes since the last open, -1 = no open yet
    lastDelay,          \* history: delay computed by the latest unclean close
    awaitingConnect,    \* history: ws closed cleanly, connect() not called since
    nextCallId,         \* the agent's next fresh call id
    phase,              \* history: how far each capability call has come
    hostInbox,          \* webview -> extension host messages (vscode.postMessage)
    inflight,           \* tool_usage handlers suspended at await _handleToolUsage
    webviewInbox,       \* extension host -> webview messages (webview.postMessage)
    sentResults,        \* tool_result messages transmitted to the agent
    strays,             \* number of tool_result messages not posted by the host
    prevStatus,         \* history: the status handed to notifyStatus before lastStatus
    broadcast,          \* history: the statuses the latest handler run broadcast
    statusCalls,        \* history: the status subscriber calls of that run, in order
    appStatus,          \* App state status: the text of the status indicator
    onStatusCallbacks,  \* this.onStatusCallbacks
    onMessageCallbacks, \* this.onMessageCallbacks
    lastMessage,        \* history: the latest ws.onmessage event and its subscriber calls
    parseFailures,      \* history: the sockets that received an unparsable payload
    received,           \* history: the payloads of ws.onmessage in order (n = 0: not JSON)
    applied,            \* history: the messages handed to the App's subscriber, in order
    messages,           \* App state messages: the chat rows
    timeline,           \* App state timeline: the Interaction nodes
    currentPlan,        \* App state currentPlan
    systemStatus,       \* App state systemStatus
    thrown,             \* a state updater threw while rendering: the App is unmounted
    lastEvent,          \* history: the latest message the App's subscriber handled
    eventCount,         \* history: how many events the App's subscriber has handled
    scenario,           \* history: how far the events follow example scenario 2, -1 = not
    ttsEnabled,         \* App state ttsEnabled
    ttsAtMount,         \* ttsEnabled as the mount effect's closures captured it
    ttsSent,            \* the enabled flag of the last toggle_tts transmitted, if any
    procs,              \* the backend processes BackendManager spawned, by state
    process,            \* BackendManager.process: index into procs, 0 = undefined
    reconnecting        \* vcca.reconnect commands suspended between stop() and start()

transportVars == <<sockets, ws, reconnectAttempts, timers, lastStatus,
                   connectionAttempted, globalWsClient>>
transportHist == <<uncleanRun, uncleanSinceOpen, lastDelay, awaitingConnect>>
bridgeVars == <<nextCallId, phase, hostInbox, inflight, webviewInbox,
                sentResults, strays>>
statusHist == <<prevStatus, broadcast, statusCalls, appStatus>>
subscriberVars == <<onStatusCallbacks, onMessageCallbacks, lastMessage, parseFailures,
                    received, applied>>
reducerVars == <<messages, timeline, currentPlan, systemStatus, thrown, lastEvent,
                 eventCount, scenario>>
ttsVars == <<ttsEnabled, ttsAtMount, ttsSent>>
backendVars == <<procs, process, reconnecting>>
sideVars == <<backendVars, ttsVars>>
vars == <<transportVars, transportHist, bridgeVars, statusHist, subscriberVars,
          reducerVars, sideVars>>

\* Call ids of the agent; 0 stands for no call.
CallIds == 1..MaxCalls

Min(a, b) == IF a < b THEN a ELSE b

Live(i) == sockets[i] \in {"CONNECTING", "OPEN"}

(***************************************************************************)
(* WebSocketClient                                                         *)
(***************************************************************************)

\* ForEachCallback, were the callbacks stored newest first.
ForEachCallbackNewestFirst(cbs, arg) ==
    [k \in 1..Len(cbs) |-> [cb |-> cbs[Len(cbs) + 1 - k], arg |-> arg]]

\* callbacks.forEach(cb => cb(arg)): the calls made, in order.
ForEachCallback(cbs, arg) ==
    [k \in 1..Len(cbs) |-> [cb |-> cbs[k], arg |-> arg]]

\* The subscriber the App passes to client.onStatus: the text it gives to
\* setStatus for the status s.
StatusText(s) ==
    CASE s = "connected" -> "Ready"
      [] s = "disconnected" -> "Offline"
      [] s = "connecting" -> "Connecting..."
      [] OTHER -> s

\* notifyStatus(status) for each status of statuses in turn (one handler run
\* calls it once; ws.onerror followed by ws.onclose makes two calls). The
\* App's subscriber, once registered, sets the App state status.
NotifyStatus(cbs, statuses) ==
    /\ appStatus' = IF (\E k \in DOMAIN cbs : cbs[k] = "app") /\ ~thrown
                    THEN StatusText(statuses[Len(statuses)])
                    ELSE appStatus
    /\ prevStatus' = IF Len(statuses) = 1 THEN lastStatus
                     ELSE statuses[Len(statuses) - 1]
    /\ lastStatus' = statuses[Len(statuses)]
    /\ broadcast' = statuses
    /\ statusCalls' =
          IF Len(statuses) = 1 THEN ForEachCallback(cbs, statuses[1])
          ELSE ForEachCallback(cbs, statuses[1]) \o ForEachCallback(cbs, statuses[2])

\* The delay of ws.onclose: Math.min(1000 * Math.pow(2, attempts), max).
ReconnectDelay(attempts) == Min(BaseDelay * (2 ^ attempts), maxReconnectDelay)

\* WebSocketClient.connect(): notifyStatus('connecting'); this.ws = new WebSocket.
\* Nothing is checked and the previous socket is neither closed nor detached.
ConnectBody ==
    /\ Len(sockets) < MaxSockets
    /\ NotifyStatus(onStatusCallbacks', <<"connecting">>)
    /\ sockets' = Append(sockets, "CONNECTING")
    /\ ws' = Len(sockets) + 1

\* CanSend without the readyState check.
CanSendUnchecked == ws # 0

\* CanSend, were the socket captured when the client was created.
CanSendFirstSocket == ws = 1 /\ sockets[1] = "OPEN"

\* WebSocketClient.send guard: this.ws && this.ws.readyState === WebSocket.OPEN.
CanSend == ws # 0 /\ sockets[ws] = "OPEN"

\* Mount, were the effect not guarded by connectionAttempted: every run of
\* the effect subscribes the App again.
MountUnguarded ==
    /\ connectionAttempted' = TRUE
    /\ globalWsClient' = TRUE
    /\ onStatusCallbacks' = Append(onStatusCallbacks, "app")
    /\ ConnectBody
    /\ onMessageCallbacks' = Append(onMessageCallbacks, "app")
    /\ ttsAtMount' = ttsEnabled
    /\ awaitingConnect' = FALSE
    /\ UNCHANGED <<reconnectAttempts, timers, uncleanRun, uncleanSinceOpen,
                   lastDelay, bridgeVars, lastMessage, parseFailures,
                   received, applied, reducerVars, backendVars,
                   ttsEnabled, ttsSent>>

\* App's mount effect: creates the client, sets globalWsClient, subscribes to
\* the status, calls client.connect() once and subscribes to the messages.
Mount ==
    /\ ~connectionAttempted
    /\ connectionAttempted' = TRUE
    /\ globalWsClient' = TRUE
    /\ onStatusCallbacks' = Append(onStatusCallbacks, "app")
    /\ ConnectBody
    /\ onMessageCallbacks' = Append(onMessageCallbacks, "app")
    /\ ttsAtMount' = ttsEnabled
    /\ awaitingConnect' = FALSE
    /\ UNCHANGED <<reconnectAttempts, timers, uncleanRun, uncleanSinceOpen,
                   lastDelay, bridgeVars, lastMessage, parseFailures,
                   received, applied, reducerVars, backendVars,
                   ttsEnabled, ttsSent>>

\* The webview's messageListener on {type: 'reconnect'} (vcca.reconnect command):
\* wsRef.current?.connect().
Reconnect ==
    /\ connectionAttempted
    /\ UNCHANGED subscriberVars
    /\ ConnectBody
    /\ awaitingConnect' = FALSE
    /\ UNCHANGED <<reconnectAttempts, timers, connectionAttempted, globalWsClient,
                   uncleanRun, uncleanSinceOpen, lastDelay, bridgeVars,
                   reducerVars, sideVars>>

\* ws.onopen of socket i.
OnOpen(i) ==
    /\ sockets[i] = "CONNECTING"
    /\ sockets' = [sockets EXCEPT ![i] = "OPEN"]
    /\ reconnectAttempts' = 0
    /\ NotifyStatus(onStatusCallbacks, <<"connected">>)
    /\ ttsSent' = IF (\E k \in DOMAIN onStatusCallbacks : onStatusCallbacks[k] = "app")
                      /\ ws # 0 /\ sockets'[ws] = "OPEN"
                   THEN <<ttsAtMount>>
                   ELSE ttsSent
    /\ uncleanRun' = 0
    /\ uncleanSinceOpen' = 0
    /\ UNCHANGED <<ws, timers, connectionAttempted, globalWsClient, lastDelay,
                   awaitingConnect, bridgeVars, subscriberVars, reducerVars,
                   backendVars, ttsEnabled, ttsAtMount>>

\* ws.onclose of socket i with event.wasClean: a closing handshake, so the
\* socket was open. No timer is set.
OnCloseClean(i) ==
    /\ sockets[i] = "OPEN"
    /\ sockets' = [sockets EXCEPT ![i] = "CLOSED"]
    /\ NotifyStatus(onStatusCallbacks, <<"disconnected">>)
    /\ uncleanRun' = 0
    /\ awaitingConnect' = (awaitingConnect \/ i = ws)
    /\ UNCHANGED <<ws, reconnectAttempts, timers, connectionAttempted,
                   globalWsClient, uncleanSinceOpen, lastDelay, bridgeVars,
                   subscriberVars, reducerVars, sideVars>>

\* OnCloseUnclean, were the client to give up after its first retry.
OnCloseUncleanGiveUp(i, withError) ==
    /\ Live(i)
    /\ sockets[i] = "CONNECTING" => withError
    /\ sockets' = [sockets EXCEPT ![i] = "CLOSED"]
    /\ NotifyStatus(onStatusCallbacks,
                    IF withError THEN <<"disconnected", "disconnected">>
                    ELSE <<"disconnected">>)
    /\ timers' = IF reconnectAttempts >= 1 THEN timers
                 ELSE Append(timers, ReconnectDelay(reconnectAttempts))
    /\ lastDelay' = ReconnectDelay(reconnectAttempts)
    /\ uncleanRun' = uncleanRun + 1
    /\ uncleanSinceOpen' = IF uncleanSinceOpen < 0 THEN uncleanSinceOpen
                           ELSE uncleanSinceOpen + 1
    /\ UNCHANGED <<ws, reconnectAttempts, connectionAttempted, globalWsClient,
                   awaitingConnect, bridgeVars, subscriberVars, reducerVars, sideVars>>

\* ws.onclose of socket i with wasClean false: a failed attempt or a lost
\* connection. The browser fires error before close when it failed the
\* connection (always for an attempt that never opened); ws.onerror then
\* broadcasts 'disconnected' and ws.onclose broadcasts it again.
OnCloseUnclean(i, withError) ==
    /\ Live(i)
    /\ sockets[i] = "CONNECTING" => withError
    /\ sockets' = [sockets EXCEPT ![i] = "CLOSED"]
    /\ NotifyStatus(onStatusCallbacks,
                    IF withError THEN <<"disconnected", "disconnected">>
                    ELSE <<"disconnected">>)
    /\ timers' = Append(timers, ReconnectDelay(reconnectAttempts))
    /\ lastDelay' = ReconnectDelay(reconnectAttempts)
    /\ uncleanRun' = uncleanRun + 1
    /\ uncleanSinceOpen' = IF uncleanSinceOpen < 0 THEN uncleanSinceOpen
                           ELSE uncleanSinceOpen + 1
    /\ UNCHANGED <<ws, reconnectAttempts, connectionAttempted, globalWsClient,
                   awaitingConnect, bridgeVars, subscriberVars, reducerVars, sideVars>>

\* The setTimeout callback of ws.onclose: this.reconnectAttempts++; this.connect().
TimerFire(k) ==
    /\ k \in DOMAIN timers
    /\ timers' = [j \in 1..(Len(timers) - 1) |->
                    IF j < k THEN timers[j] ELSE timers[j + 1]]
    /\ reconnectAttempts' = reconnectAttempts + 1
    /\ UNCHANGED subscriberVars
    /\ ConnectBody
    /\ UNCHANGED <<connectionAttempted, globalWsClient, transportHist, bridgeVars,
                   reducerVars, sideVars>>

\* What the Transport does without a caller: the mount, socket events, timers.
TransportEvents ==
    \/ Mount
    \/ \E i \in DOMAIN sockets : OnOpen(i)
    \/ \E i \in DOMAIN sockets : OnCloseClean(i)
    \/ \E i \in DOMAIN sockets, withError \in BOOLEAN : OnCloseUnclean(i, withError)
    \/ \E k \in DOMAIN timers : TimerFire(k)

TransportNext == TransportEvents \/ Reconnect

(***************************************************************************)
(* WebSocketClient: subscribers and inbound messages                       *)
(***************************************************************************)

\* Subscribers other than the App's own.
ExtraSubscribers == {"other"}

\* Inbound payloads other than a tool_usage: a message the App has no branch
\* for, and text that is not JSON.
Payloads == {"{type:ping}", "not json"}

\* JsonParse, were it to hand unparsable text on as a message.
JsonParseLenient(payload) ==
    IF payload = "{type:ping}" THEN [ok |-> TRUE, type |-> "ping"]
    ELSE [ok |-> TRUE, type |-> "raw"]

\* JSON.parse(event.data) as Message: the message, or the SyntaxError thrown.
JsonParse(payload) ==
    IF payload = "{type:ping}" THEN [ok |-> TRUE, type |-> "ping"]
    ELSE [ok |-> FALSE, type |-> "SyntaxError"]

\* WebSocketClient.onStatus(callback).
OnStatus(cb) ==
    /\ globalWsClient
    /\ Len(onStatusCallbacks) < MaxSubscribers
    /\ onStatusCallbacks' = Append(onStatusCallbacks, cb)
    /\ UNCHANGED <<transportVars, transportHist, bridgeVars, statusHist, reducerVars, sideVars,
                   onMessageCallbacks, lastMessage, parseFailures, received,
                   applied>>

\* WebSocketClient.onMessage(callback).
OnMessage(cb) ==
    /\ globalWsClient
    /\ Len(onMessageCallbacks) < MaxSubscribers
    /\ onMessageCallbacks' = Append(onMessageCallbacks, cb)
    /\ UNCHANGED <<transportVars, transportHist, bridgeVars, statusHist, reducerVars, sideVars,
                   onStatusCallbacks, lastMessage, parseFailures, received,
                   applied>>

\* The calls of the sequence calls that went to the App's subscriber, each
\* noted as the message m.
AppCalls(calls, m) ==
    [k \in 1..Cardinality({j \in DOMAIN calls : calls[j].cb = "app"}) |-> m]

\* ws.onmessage of socket i: parse the payload and call every message
\* subscriber; a parse error is caught and logged. The App's subscriber has
\* no branch for a ping. The messages of the run are numbered as they come.
WsOnMessage(i, payload) ==
    /\ sockets[i] = "OPEN"
    /\ Len(received) < MaxMessages
    /\ LET data == JsonParse(payload)
           calls == IF data.ok
                    THEN ForEachCallback(onMessageCallbacks, data.type)
                    ELSE <<>>
           m == [sock |-> i, n |-> Len(received) + 1]
       IN /\ lastMessage' = [sock |-> i, payload |-> payload, calls |-> calls]
          /\ parseFailures' = IF data.ok THEN parseFailures
                              ELSE parseFailures \cup {i}
          /\ received' = Append(received, [m EXCEPT !.n = IF data.ok THEN @ ELSE 0])
          /\ applied' = applied \o AppCalls(calls, m)
    /\ UNCHANGED <<transportVars, transportHist, bridgeVars, statusHist, reducerVars, sideVars,
                   onStatusCallbacks, onMessageCallbacks>>

SubscriberNext ==
    \/ \E cb \in ExtraSubscribers : OnStatus(cb)
    \/ \E cb \in ExtraSubscribers : OnMessage(cb)
    \/ \E i \in DOMAIN sockets, payload \in Payloads : WsOnMessage(i, payload)

(***************************************************************************)
(* Capability call bridge                                                  *)
(*                                                                         *)
(* Messages carry two history fields next to the fields of the code: arr,  *)
(* the socket the tool_usage arrived on, and by, the call whose execution  *)
(* produced an output (0 for a result no execution produced).              *)
(***************************************************************************)

ToolNames == {"execute_vscode_command", "run_terminal_command", "bogus_tool"}

\* How the capability executor can answer a call that has waited so long.
Outcomes(tool, waited) ==
    CASE tool = "execute_vscode_command" -> {"ok", "throws", "unserialisable"}
      [] tool = "run_terminal_command" ->
            IF waited >= ExecTimeout THEN {"timeout"} ELSE {"ok"}
      [] OTHER -> {"ok"}

\* _handleToolUsage before its first await: the workspace check and the
\* switch default settle the promise without waiting for an executor.
ReturnsAtOnce(tool, workspaceOpen) == ~workspaceOpen \/ tool = "bogus_tool"

\* _handleToolUsage(data): the value the promise resolves with. The try/catch
\* around the switch turns an exception of a tool into a string.
HandleToolUsage(tool, workspaceOpen, outcome) ==
    IF ~workspaceOpen THEN "NoWorkspace"
    ELSE CASE tool = "bogus_tool" -> "UnknownTool"
           [] tool = "run_terminal_command" ->
                 IF outcome = "ok" THEN "ExitZero" ELSE "ExitKilled"
           [] tool = "execute_vscode_command" ->
                 CASE outcome = "throws" -> "ErrorExecutingCommand"
                   [] outcome = "unserialisable" -> "Unserialisable"
                   [] OTHER -> "CommandResult"

\* Which failure of the execution, if any, a handler run met.
FailureOf(tool, workspaceOpen, outcome) ==
    CASE ~workspaceOpen -> "no_workspace"
      [] tool = "bogus_tool" -> "unknown_tool"
      [] outcome \in {"throws", "unserialisable"} -> "exception"
      [] OTHER -> "none"

\* The newest call whose handler the host has started, data's own included:
\* what a field shared by all handler runs would hold.
LatestStarted(data) ==
    LET started == {c \in CallIds : phase[c] \notin {"unused", "requested"}}
                   \cup {data.call_id}
    IN CHOOSE c \in started : \A d \in started : d <= c

\* ResultCallId, were the id read from a field shared by the handler runs.
ResultCallIdShared(data) == LatestStarted(data)

\* The call id the tool_usage handler writes into its tool_result: data.call_id
\* of the handler's own invocation.
ResultCallId(data) == data.call_id

\* The tool_result the handler posts for the value its execution returned.
ToolResult(data, failure, output) ==
    [call_id |-> ResultCallId(data), output |-> output,
     by |-> data.call_id, arr |-> data.arr, failure |-> failure]

\* ToolUsageCase without its catch: the exception of the log line escapes.
ToolUsageCaseNoCatch(data, failure, ret) ==
    IF ret = "Unserialisable" THEN <<>> ELSE <<ToolResult(data, failure, ret)>>

\* The tool_usage case of onDidReceiveMessage after the await: log the result
\* (JSON.stringify(result).length throws on a value that does not serialise),
\* post it, and on any exception post "Error: ..." instead. The sequence of
\* tool_result messages posted; <<>> would be an escaped exception.
ToolUsageCase(data, failure, ret) ==
    IF ret = "Unserialisable" THEN <<ToolResult(data, failure, "Error")>>
    ELSE <<ToolResult(data, failure, ret)>>

\* ws.onmessage of socket i with a tool_usage, and the App subscriber's branch
\* for it: vscode.postMessage(msg).
RecvToolUsage(i, tool) ==
    /\ sockets[i] = "OPEN"
    /\ nextCallId \in CallIds
    /\ hostInbox' = Append(hostInbox,
                           [call_id |-> nextCallId, tool_name |-> tool, arr |-> i])
    /\ phase' = [phase EXCEPT ![nextCallId] = "requested"]
    /\ nextCallId' = nextCallId + 1
    /\ lastMessage' = [sock |-> i, payload |-> "{type:tool_usage}",
                       calls |-> ForEachCallback(onMessageCallbacks, "tool_usage")]
    /\ UNCHANGED <<transportVars, transportHist, statusHist, inflight,
                   webviewInbox, sentResults, strays, onStatusCallbacks,
                   onMessageCallbacks, parseFailures, received, applied,
                   reducerVars, sideVars>>

\* The rest of the host's handler run for call data, whose execution returned
\* ret: what it posts to the webview.
HostFinish(data, failure, ret) ==
    LET posts == ToolUsageCase(data, failure, ret)
    IN /\ webviewInbox' = webviewInbox \o posts
       /\ phase' = [phase EXCEPT ![data.call_id] =
                       IF posts = <<>> THEN "escaped" ELSE "posted"]

\* onDidReceiveMessage with a tool_usage: the handler runs up to
\* await this._handleToolUsage(data); when that returns at once the rest of the
\* handler follows before any other event.
HostReceive(workspaceOpen) ==
    /\ hostInbox # <<>>
    /\ LET data == Head(hostInbox)
       IN /\ hostInbox' = Tail(hostInbox)
          /\ IF ReturnsAtOnce(data.tool_name, workspaceOpen)
             THEN /\ HostFinish(data,
                                FailureOf(data.tool_name, workspaceOpen, "ok"),
                                HandleToolUsage(data.tool_name, workspaceOpen, "ok"))
                  /\ UNCHANGED inflight
             ELSE /\ inflight' = inflight \cup
                        {[call_id |-> data.call_id, tool_name |-> data.tool_name,
                          arr |-> data.arr, waited |-> 0]}
                  /\ phase' = [phase EXCEPT ![data.call_id] = "executing"]
                  /\ UNCHANGED webviewInbox
    /\ UNCHANGED <<transportVars, transportHist, statusHist, subscriberVars,
                   reducerVars, sideVars, nextCallId, sentResults, strays>>

\* The capability executor answers call r: the handler resumes after the await.
HostComplete(r, outcome) ==
    /\ r \in inflight
    /\ outcome \in Outcomes(r.tool_name, r.waited)
    /\ inflight' = inflight \ {r}
    /\ HostFinish(r, FailureOf(r.tool_name, TRUE, outcome),
                  HandleToolUsage(r.tool_name, TRUE, outcome))
    /\ UNCHANGED <<transportVars, transportHist, statusHist, subscriberVars,
                   reducerVars, sideVars, nextCallId, hostInbox,
                   sentResults, strays>>

\* Time passes by ExecTimeout ms while calls wait for the executor. cp.exec's
\* timeout ends a run_terminal_command that has waited ExecTimeout; nothing
\* bounds the wait of any other tool.
Tick ==
    /\ inflight # {}
    /\ \A r \in inflight :
          /\ r.waited < (MaxTicks + 1) * ExecTimeout
          /\ r.tool_name = "run_terminal_command" => r.waited < ExecTimeout
    /\ inflight' = {[r EXCEPT !.waited = r.waited + ExecTimeout] : r \in inflight}
    /\ UNCHANGED <<transportVars, transportHist, statusHist, subscriberVars,
                   reducerVars, sideVars, nextCallId, phase, hostInbox,
                   webviewInbox, sentResults, strays>>

\* A tool_result window message reaches the webview that no handler run of the
\* host posted (a duplicate or a late result, or one for an id never requested).
StrayToolResult(c) ==
    /\ strays < MaxStray
    /\ strays' = strays + 1
    /\ webviewInbox' = Append(webviewInbox,
                              [call_id |-> c, output |-> "Stray", by |-> 0,
                               arr |-> 0, failure |-> "none"])
    /\ UNCHANGED <<transportVars, transportHist, statusHist, subscriberVars,
                   reducerVars, sideVars, nextCallId, phase, hostInbox,
                   inflight, sentResults>>

\* The module-level window 'message' listener: a tool_result is handed to
\* globalWsClient.send, which transmits it only when this.ws is open.
WindowMessage ==
    /\ webviewInbox # <<>>
    /\ LET message == Head(webviewInbox)
           transmit == globalWsClient /\ CanSend
       IN /\ webviewInbox' = Tail(webviewInbox)
          /\ phase' = IF message.by = 0 THEN phase
                      ELSE [phase EXCEPT ![message.by] =
                               IF transmit THEN "forwarded" ELSE "dropped"]
          /\ sentResults' =
                IF transmit
                THEN Append(sentResults,
                            [call_id |-> message.call_id, output |-> message.output,
                             by |-> message.by, arr |-> message.arr,
                             failure |-> message.failure, sock |-> ws])
                ELSE sentResults
    /\ UNCHANGED <<transportVars, transportHist, statusHist, subscriberVars,
                   reducerVars, sideVars, nextCallId, hostInbox,
                   inflight, strays>>

\* The bridge's own steps.
BridgeCore ==
    \/ \E i \in DOMAIN sockets, tool \in ToolNames : RecvToolUsage(i, tool)
    \/ \E workspaceOpen \in BOOLEAN : HostReceive(workspaceOpen)
    \/ \E r \in inflight, outcome \in {"ok", "throws", "timeout", "unserialisable"} :
          HostComplete(r, outcome)
    \/ WindowMessage

BridgeNext ==
    \/ BridgeCore
    \/ Tick
    \/ \E c \in CallIds : StrayToolResult(c)

(***************************************************************************)
(* Timeline reducer: the App's message subscriber and its helpers          *)
(*                                                                         *)
(* "" stands for an absent id; a log entry keeps its type only (its id and *)
(* timestamp come from the clock).                                         *)
(***************************************************************************)

\* null / undefined.
Null == [null |-> TRUE]

InteractionIds == {"", "t1"}
StepIds == {"1", "2"}

PlanStep(id) == [id |-> id, title |-> IF id = "1" THEN "T1" ELSE "T2",
                 status |-> "pending"]

\* A plan payload with the step list steps.
Plan(steps) == [refined_goal |-> "G", steps |-> steps]

\* A payload without a steps list.
PartialPlans == {[refined_goal |-> "G"]}

\* Plan payloads: a goal and a step list, which may repeat a step id.
Plans ==
    {Plan(st) :
        st \in {<<>>, <<PlanStep("1")>>, <<PlanStep("1"), PlanStep("2")>>,
                <<PlanStep("1"), PlanStep("1")>>}}

Event(type, interaction_id, id, status, payload) ==
    [type |-> type, interaction_id |-> interaction_id, id |-> id,
     status |-> status, payload |-> payload]

\* The call ids of the agent_action messages.
ToolCallIds == {"c1", "c2"}

\* A message type and a command the subscriber has no branch for.
UnhandledTypes == {"ping", "unknown_command"}

\* The messages of the agent: those the reducer has a branch for, with whole,
\* partial and missing payloads, and those it has none for.
Events ==
    {Event("error", i, "", "", Null) : i \in InteractionIds}
    \cup {Event("plan_created", "", "", "", Plan(st)) :
            st \in {<<PlanStep("1")>>, <<PlanStep("1"), PlanStep("2")>>}}
    \cup {Event(t, "", sid, "", Null) :
            t \in {"step_start", "step_complete"}, sid \in StepIds}
    \cup {Event("update_plan", i, "", "", pl) :
            i \in InteractionIds, pl \in Plans \cup PartialPlans \cup {Null}}
    \cup {Event("request_approval", i, "", "", pl) :
            i \in InteractionIds,
            pl \in {Plan(<<PlanStep("1")>>), Null}}
    \cup {Event("update_step", i, sid, st, Null) :
            i \in InteractionIds, sid \in StepIds, st \in {"in_progress", "done"}}
    \cup {Event("update_step", "", "", "done", Null)}
    \cup {Event("debug", i, sid, "", Null) :
            i \in InteractionIds, sid \in StepIds \cup {""}}
    \cup {Event("tool_start", "", c, "", Null) : c \in ToolCallIds}
    \cup {Event("tool_end", "", c, st, Null) :
            c \in ToolCallIds, st \in {"", "failure"}}
    \cup {Event("status", "", "", st, Null) : st \in {"", "busy"}}
    \cup {Event("stop_recording", "", "", "", Null)}
    \cup {Event("system_status", "", "", "", [load |-> 1])}
    \cup {Event(t, "", "", "", Null) : t \in UnhandledTypes}

\* A chat row of messages.
Row(row_type, id, status, isCollapsed, steps) ==
    [row_type |-> row_type, id |-> id, status |-> status,
     isCollapsed |-> isCollapsed, steps |-> steps]

\* NodeIndex, were the lookup never to match.
NodeIndexNoMatch(prev, targetId) == 0

\* prev.findIndex(n => n.id === targetId), 0 for -1.
NodeIndex(prev, targetId) ==
    IF \E k \in DOMAIN prev : prev[k].id = targetId
    THEN CHOOSE k \in DOMAIN prev :
            prev[k].id = targetId /\ \A j \in 1..(k - 1) : prev[j].id # targetId
    ELSE 0

\* steps.findIndex(s => s.id === step_id), 0 for -1.
StepIndex(steps, step_id) ==
    IF \E k \in DOMAIN steps : steps[k].id = step_id
    THEN CHOOSE k \in DOMAIN steps :
            steps[k].id = step_id /\ \A j \in 1..(k - 1) : steps[j].id # step_id
    ELSE 0

\* addToTimeline(log, interaction_id, step_id).
AddToTimeline(prev, log, interaction_id, step_id) ==
    LET targetId == IF interaction_id = "" THEN "SYSTEM" ELSE interaction_id
        found == NodeIndex(prev, targetId)
        newTimeline ==
            IF found = 0
            THEN Append(prev, [id |-> targetId,
                               title |-> IF targetId = "SYSTEM" THEN "System Events"
                                         ELSE "Active Task",
                               steps |-> <<>>, logs |-> <<>>, plan |-> Null])
            ELSE prev
        nodeIndex == IF found = 0 THEN Len(newTimeline) ELSE found
        node == newTimeline[nodeIndex]
        stepFound == StepIndex(node.steps, step_id)
        steps == IF stepFound = 0
                 THEN Append(node.steps,
                             [id |-> step_id,
                              title |-> IF step_id = "1" THEN "Step 1" ELSE "Step 2",
                              status |-> "pending", logs |-> <<>>])
                 ELSE node.steps
        stepIndex == IF stepFound = 0 THEN Len(steps) ELSE stepFound
        newNode ==
            IF step_id # ""
            THEN [node EXCEPT !.steps =
                     [steps EXCEPT ![stepIndex].logs = Append(@, log)]]
            ELSE [node EXCEPT !.logs = Append(@, log)]
    IN [newTimeline EXCEPT ![nodeIndex] = newNode]

\* UpdateTimelinePlan, were every step of the plan built afresh.
UpdateTimelinePlanFreshLogs(prev, plan, interaction_id) ==
    IF plan = Null \/ prev = <<>> THEN prev
    ELSE LET targetId == IF interaction_id # "" THEN interaction_id
                         ELSE prev[Len(prev)].id
             nodeIndex == NodeIndex(prev, targetId)
         IN IF nodeIndex = 0 THEN prev
            ELSE LET node == prev[nodeIndex]
                     planSteps == IF "steps" \in DOMAIN plan THEN plan.steps
                                  ELSE <<>>
                     newSteps ==
                         [k \in 1..Len(planSteps) |->
                            [id |-> planSteps[k].id, title |-> planSteps[k].title,
                             status |-> planSteps[k].status, logs |-> <<>>]]
                 IN [prev EXCEPT ![nodeIndex] =
                        [node EXCEPT !.title = IF plan.refined_goal = "G"
                                                THEN "Task: G"
                                                ELSE "Task: Unknown",
                                     !.plan = plan, !.steps = newSteps]]

\* updateTimelinePlan(plan, interaction_id).
UpdateTimelinePlan(prev, plan, interaction_id) ==
    IF plan = Null \/ prev = <<>> THEN prev
    ELSE LET targetId == IF interaction_id # "" THEN interaction_id
                         ELSE prev[Len(prev)].id
             nodeIndex == NodeIndex(prev, targetId)
         IN IF nodeIndex = 0 THEN prev
            ELSE LET node == prev[nodeIndex]
                     planSteps == IF "steps" \in DOMAIN plan THEN plan.steps
                                  ELSE <<>>
                     newSteps ==
                         [k \in 1..Len(planSteps) |->
                            LET ps == planSteps[k]
                                existing == StepIndex(node.steps, ps.id)
                            IN IF existing # 0
                               THEN [node.steps[existing] EXCEPT
                                        !.title = ps.title, !.status = ps.status]
                               ELSE [id |-> ps.id, title |-> ps.title,
                                     status |-> ps.status, logs |-> <<>>]]
                 IN [prev EXCEPT ![nodeIndex] =
                        [node EXCEPT !.title = IF plan.refined_goal = "G"
                                                THEN "Task: G"
                                                ELSE "Task: Unknown",
                                     !.plan = plan, !.steps = newSteps]]

\* updateStepStatusInTimeline(step_id, status, interaction_id).
UpdateStepStatusInTimeline(prev, step_id, status, interaction_id) ==
    [k \in DOMAIN prev |->
        LET node == prev[k]
            stepIndex == StepIndex(node.steps, step_id)
        IN IF interaction_id # "" /\ node.id # interaction_id THEN node
           ELSE IF stepIndex # 0
                THEN [node EXCEPT !.steps[stepIndex].status = status]
                ELSE node]

\* HandleAgentAction, were a tool_end to close every tool trace.
HandleAgentActionAnyTrace(prev, msg) ==
    IF msg.type = "tool_start"
    THEN Append(prev, Row("tool_trace", msg.id, "running", FALSE, <<>>))
    ELSE [k \in DOMAIN prev |->
            IF prev[k].row_type = "tool_trace"
            THEN [prev[k] EXCEPT !.status = IF msg.status = "" THEN "success"
                                            ELSE msg.status]
            ELSE prev[k]]

\* handleAgentAction(msg) on the chat rows.
HandleAgentAction(prev, msg) ==
    IF msg.type = "tool_start"
    THEN Append(prev, Row("tool_trace", msg.id, "running", FALSE, <<>>))
    ELSE [k \in DOMAIN prev |->
            IF prev[k].row_type = "tool_trace" /\ prev[k].id = msg.id
            THEN [prev[k] EXCEPT !.status = IF msg.status = "" THEN "success"
                                            ELSE msg.status]
            ELSE prev[k]]

\* The updater of the command update_step branch throws a TypeError:
\* prev.steps.map with prev.steps undefined.
UpdateStepThrows(prev) == prev # Null /\ "steps" \notin DOMAIN prev

\* The command update_step branch on currentPlan.
UpdateStepInPlan(prev, msg) ==
    IF prev = Null THEN prev
    ELSE [prev EXCEPT !.steps =
             [k \in DOMAIN prev.steps |->
                IF prev.steps[k].id = msg.id
                THEN [prev.steps[k] EXCEPT !.status = msg.status]
                ELSE prev.steps[k]]]

\* Unhandled, were a message without a branch logged as a system event.
UnhandledLogged(st, msg) ==
    [st EXCEPT !.timeline = AddToTimeline(@, [type |-> "UNKNOWN"], "SYSTEM", "")]

\* A message that matches no branch of the if / else-if chain, and a command
\* that matches none of the inner chain: there is no final else.
Unhandled(st, msg) == st

\* The subscriber the App passes to client.onMessage, on the App state st:
\* the state after msg. An updater that throws while the state is rendered
\* takes the App down with the state of the message not shown.
OnMessageHandler(st, msg) ==
    CASE msg.type = "status" ->
            [st EXCEPT !.status = IF msg.status = "" THEN "Ready" ELSE msg.status]
      [] msg.type = "stop_recording" ->
            [st EXCEPT !.status = "Ready"]
      [] msg.type = "system_status" ->
            [st EXCEPT
                !.systemStatus = msg.payload,
                !.timeline = AddToTimeline(@, [type |-> "SYS_STATUS"], "SYSTEM", "")]
      [] msg.type = "error" ->
            [st EXCEPT
                !.messages = Append(@, Row("text", "Error", "", FALSE, <<>>)),
                !.timeline = AddToTimeline(@, [type |-> "ERROR"],
                                           msg.interaction_id, "")]
      [] msg.type = "plan_created" ->
            [st EXCEPT
                !.messages = Append(@, Row("plan_container", msg.payload.refined_goal,
                                           "", TRUE, msg.payload.steps))]
      [] msg.type = "step_start" ->
            [st EXCEPT
                !.messages =
                    Append([k \in DOMAIN st.messages |->
                              IF st.messages[k].row_type = "step_container"
                              THEN [st.messages[k] EXCEPT !.isCollapsed = TRUE]
                              ELSE st.messages[k]],
                           Row("step_container", msg.id, "in_progress", FALSE, <<>>))]
      [] msg.type = "step_complete" ->
            [st EXCEPT
                !.messages =
                    [k \in DOMAIN st.messages |->
                        IF st.messages[k].row_type = "step_container"
                           /\ st.messages[k].id = msg.id
                        THEN [st.messages[k] EXCEPT !.status = "done",
                                                    !.isCollapsed = TRUE]
                        ELSE st.messages[k]]]
      [] msg.type \in {"tool_start", "tool_end"} ->
            [st EXCEPT !.messages = HandleAgentAction(@, msg)]
      [] msg.type \in {"update_plan", "request_approval"} ->
            [st EXCEPT
                !.currentPlan = msg.payload,
                !.status = IF msg.type = "request_approval" THEN "waiting_approval"
                           ELSE @,
                !.timeline =
                    UpdateTimelinePlan(
                        AddToTimeline(@, [type |-> IF msg.type = "update_plan"
                                                   THEN "PLAN_UPDATE"
                                                   ELSE "PLAN_APPROVAL_NEEDED"],
                                      msg.interaction_id, ""),
                        msg.payload, msg.interaction_id)]
      [] msg.type = "update_step" ->
            IF msg.id = "" THEN st
            ELSE IF UpdateStepThrows(st.currentPlan) THEN [st EXCEPT !.thrown = TRUE]
            ELSE [st EXCEPT
                    !.currentPlan = UpdateStepInPlan(@, msg),
                    !.timeline =
                        AddToTimeline(
                            UpdateStepStatusInTimeline(@, msg.id, msg.status,
                                                       msg.interaction_id),
                            [type |-> "STEP_UPDATE"], msg.interaction_id, msg.id)]
      [] msg.type = "debug" ->
            [st EXCEPT
                !.timeline = AddToTimeline(@, [type |-> "DEBUG"],
                                           msg.interaction_id, msg.id)]
      [] OTHER -> Unhandled(st, msg)

\* The App state as one value.
Session == [messages |-> messages, timeline |-> timeline,
            currentPlan |-> currentPlan, systemStatus |-> systemStatus,
            status |-> appStatus, thrown |-> thrown]

\* Example scenario 2 of the specification.
Scenario2 ==
    <<Event("plan_created", "", "", "", [refined_goal |-> "G",
                                        steps |-> <<PlanStep("1")>>]),
      Event("step_start", "", "1", "", Null),
      Event("update_step", "", "1", "done", Null)>>

\* ws.onmessage with a message of the agent: the App's subscriber handles it.
Receive(msg) ==
    /\ eventCount < MaxEvents
    /\ ~thrown
    /\ eventCount' = eventCount + 1
    /\ lastEvent' = msg
    /\ scenario' = IF scenario \in 0..(Len(Scenario2) - 1)
                      /\ msg = Scenario2[scenario + 1]
                   THEN scenario + 1 ELSE -1
    /\ LET after == OnMessageHandler(Session, msg)
       IN /\ messages' = after.messages
          /\ timeline' = after.timeline
          /\ currentPlan' = after.currentPlan
          /\ systemStatus' = after.systemStatus
          /\ appStatus' = after.status
          /\ thrown' = after.thrown
    /\ UNCHANGED <<transportVars, transportHist, bridgeVars, prevStatus, broadcast,
                   statusCalls, subscriberVars, sideVars>>

ReducerNext == \E msg \in Events : Receive(msg)

(***************************************************************************)
(* The TTS toggle of the App                                               *)
(***************************************************************************)

\* The user toggles Auto-TTS: setTtsEnabled, and the [ttsEnabled] effect
\* sends the new setting through wsRef.current.
ToggleTts ==
    /\ connectionAttempted
    /\ ~thrown
    /\ ttsEnabled' = ~ttsEnabled
    /\ ttsSent' = IF CanSend THEN <<ttsEnabled'>> ELSE ttsSent
    /\ UNCHANGED <<transportVars, transportHist, bridgeVars, statusHist,
                   subscriberVars, reducerVars, backendVars, ttsAtMount>>

(***************************************************************************)
(* BackendManager (extension/src/backendManager.ts), on a platform other   *)
(* than win32, and the vcca.reconnect command                              *)
(***************************************************************************)

\* BackendManager.isRunning().
IsRunning == process # 0 /\ procs[process] # "killed"

\* The effect of start() on <<procs, process>>: nothing when this.process
\* is set, else cp.spawn.
StartBody ==
    IF process # 0
    THEN UNCHANGED <<procs, process>>
    ELSE /\ procs' = Append(procs, "alive")
         /\ process' = Len(procs) + 1

\* The effect of stop() on <<procs, process>>: this.process.kill() and
\* this.process = undefined, when this.process is set.
StopBody ==
    IF process = 0
    THEN UNCHANGED <<procs, process>>
    ELSE /\ procs' = [procs EXCEPT ![process] = "killed"]
         /\ process' = 0

\* BackendManager.start(), as activation and the start command call it.
Start ==
    /\ Len(procs) < MaxProcs
    /\ StartBody
    /\ UNCHANGED <<transportVars, transportHist, bridgeVars, statusHist,
                   subscriberVars, reducerVars, ttsVars, reconnecting>>

\* BackendManager.stop().
Stop ==
    /\ StopBody
    /\ UNCHANGED <<transportVars, transportHist, bridgeVars, statusHist,
                   subscriberVars, reducerVars, ttsVars, reconnecting>>

\* The child process i exits and its 'close' handler runs: this.process is
\* set to undefined, whichever process it holds.
ProcClose(i) ==
    /\ procs[i] \in {"alive", "killed"}
    /\ procs' = [procs EXCEPT ![i] = "closed"]
    /\ process' = 0
    /\ UNCHANGED <<transportVars, transportHist, bridgeVars, statusHist,
                   subscriberVars, reducerVars, ttsVars, reconnecting>>

\* vcca.reconnect up to its first await: backendManager.stop().
ReconnectStop ==
    /\ reconnecting = 0
    /\ StopBody
    /\ reconnecting' = 1
    /\ UNCHANGED <<transportVars, transportHist, bridgeVars, statusHist,
                   subscriberVars, reducerVars, ttsVars>>

\* vcca.reconnect after the secret was read: backendManager.start().
ReconnectStart ==
    /\ reconnecting = 1
    /\ Len(procs) < MaxProcs
    /\ StartBody
    /\ reconnecting' = 0
    /\ UNCHANGED <<transportVars, transportHist, bridgeVars, statusHist,
                   subscriberVars, reducerVars, ttsVars>>

BackendNext ==
    \/ Start
    \/ Stop
    \/ \E i \in DOMAIN procs : ProcClose(i)
    \/ ReconnectStop
    \/ ReconnectStart

Init ==
    /\ sockets = <<>>
    /\ ws = 0
    /\ reconnectAttempts = 0
    /\ timers = <<>>
    /\ lastStatus = "none"
    /\ connectionAttempted = FALSE
    /\ globalWsClient = FALSE
    /\ uncleanRun = 0
    /\ uncleanSinceOpen = -1
    /\ lastDelay = 0
    /\ awaitingConnect = FALSE
    /\ nextCallId = 1
    /\ phase = [c \in CallIds |-> "unused"]
    /\ hostInbox = <<>>
    /\ inflight = {}
    /\ webviewInbox = <<>>
    /\ sentResults = <<>>
    /\ strays = 0
    /\ prevStatus = "none"
    /\ broadcast = <<>>
    /\ statusCalls = <<>>
    /\ onStatusCallbacks = <<>>
    /\ onMessageCallbacks = <<>>
    /\ lastMessage = [sock |-> 0, payload |-> "", calls |-> <<>>]
    /\ parseFailures = {}
    /\ received = <<>>
    /\ applied = <<>>
    /\ appStatus = "Ready"
    /\ systemStatus = Null
    /\ thrown = FALSE
    /\ lastEvent = Null
    /\ messages = <<>>
    /\ timeline = <<>>
    /\ currentPlan = [null |-> TRUE]
    /\ eventCount = 0
    /\ scenario = 0
    /\ ttsEnabled = TRUE
    /\ ttsAtMount = TRUE
    /\ ttsSent = <<>>
    /\ procs = <<>>
    /\ process = 0
    /\ reconnecting = 0

Next ==
    TransportNext \/ BridgeNext \/ SubscriberNext \/ ReducerNext \/ ToggleTts
        \/ BackendNext

\* The whole client.
Spec == Init /\ [][Next]_vars

\* The Transport alone: no capability call is requested.
SpecTransport == Init /\ [][TransportNext]_vars

\* The Transport left to reconnect on its own, with further subscribers and
\* inbound messages; a pending reconnect timer fires in the end.
SpecSubscribers ==
    /\ Init
    /\ [][TransportEvents \/ SubscriberNext]_vars
    /\ WF_vars(\E k \in DOMAIN timers : TimerFire(k))

\* The App's subscriber fed with the agent's messages, from the empty Session.
SpecReducer == Init /\ [][ReducerNext]_vars

\* The Transport while the user toggles Auto-TTS.
SpecTts == Init /\ [][TransportNext \/ ToggleTts]_vars

\* The BackendManager under its callers and the exits of its processes.
SpecBackend == Init /\ [][BackendNext]_vars

\* The bridge over a Transport that is left to reconnect on its own.
SpecBridge == Init /\ [][TransportEvents \/ BridgeCore]_vars

\* SpecBridge in an open environment: time passes while calls wait, and
\* tool_result messages arrive that the host did not post.
SpecBridgeOpen == Init /\ [][TransportEvents \/ BridgeNext]_vars

(***************************************************************************)
(* Capability call bridge: properties                                      *)
(***************************************************************************)

\* How many tool_result messages with call id c were transmitted to the agent.
ResultsSent(c) ==
    Cardinality({k \in DOMAIN sentResults : sentResults[k].call_id = c})

\* The outputs by which the host reports a failed execution.
ConveysError(output) ==
    output \in {"NoWorkspace", "UnknownTool", "ErrorExecutingCommand", "Error"}

\* C1: for every tool_usage delivered to the client exactly one tool_result
\* with its call_id is transmitted to the agent: never two, and once the
\* bridge has done all it does for the call, not zero.
C1_ExactlyOneResult ==
    \A c \in CallIds :
        /\ ResultsSent(c) <= 1
        /\ phase[c] \in {"forwarded", "dropped", "escaped"} => ResultsSent(c) = 1

\* C2: every tool_result on its way to the agent, posted by the host or
\* already transmitted, carries the call_id of the tool_usage whose execution
\* produced its output.
C2_ResultCarriesOwnCallId ==
    /\ \A k \in DOMAIN webviewInbox :
          webviewInbox[k].by # 0 => webviewInbox[k].call_id = webviewInbox[k].by
    /\ \A k \in DOMAIN sentResults :
          sentResults[k].by # 0 => sentResults[k].call_id = sentResults[k].by

\* Call 2, requested after call 1, was answered first: both were in flight
\* together and the executions completed in the opposite order.
C2_Witness ==
    /\ Len(sentResults) >= 2
    /\ sentResults[1].by = 2
    /\ sentResults[2].by = 1

\* C3: a tool_result whose call_id the bridge does not know, because it was
\* never requested or is already answered, is a no-op: nothing is passed on
\* for it, so an id never requested has no result transmitted and no id has
\* two.
C3_UnknownResultIsNoOp ==
    \A c \in CallIds :
        ResultsSent(c) <= (IF phase[c] = "unused" THEN 0 ELSE 1)

\* C4: a pending call that gets no result within a bounded interval is ended
\* with a timeout error and removed: no handler waits for its executor longer
\* than the timeout, ExecTimeout being the one timeout of the host.
C4_PendingCallTimesOut ==
    \A r \in inflight : r.waited <= ExecTimeout

\* C5: when the execution of a capability fails (exception, unknown tool, no
\* workspace) the host posts one tool_result with the request's call_id and
\* an output that conveys the error, as for a success, and no exception
\* escapes the handler.
C5_FailurePostedAsResult ==
    /\ \A c \in CallIds :
          /\ phase[c] # "escaped"
          /\ phase[c] = "posted" =>
                Cardinality({k \in DOMAIN webviewInbox : webviewInbox[k].by = c}) = 1
    /\ \A k \in DOMAIN webviewInbox :
          LET m == webviewInbox[k]
          IN m.by # 0 =>
                /\ m.call_id = m.by
                /\ m.failure # "none" => ConveysError(m.output)

\* A failed execution of each kind has been posted or transmitted as a result.
C5_Witness ==
    /\ \E k \in DOMAIN sentResults : sentResults[k].failure = "exception"
    /\ \E k \in DOMAIN webviewInbox :
          webviewInbox[k].failure \in {"unknown_tool", "no_workspace"}

\* C6: a disconnect while a call is in flight produces no result for it and
\* fails no call, and a tool_result the webview receives from the host once
\* the Transport holds an open connection again is transmitted on that
\* connection.
C6_CallSurvivesReconnect ==
    [][/\ (\E i \in DOMAIN sockets : sockets[i] # "CLOSED" /\ sockets'[i] = "CLOSED")
            => UNCHANGED bridgeVars
       /\ (/\ webviewInbox # <<>>
           /\ webviewInbox' = Tail(webviewInbox)
           /\ ws # 0
           /\ sockets[ws] = "OPEN")
            => LET m == Head(webviewInbox)
               IN sentResults' = Append(sentResults,
                        [call_id |-> m.call_id, output |-> m.output, by |-> m.by,
                         arr |-> m.arr, failure |-> m.failure, sock |-> ws])
      ]_vars

\* A result was transmitted on another socket than the one its request came
\* on, which had closed while the call was in flight.
C6_Witness ==
    \E k \in DOMAIN sentResults :
        /\ sentResults[k].by # 0
        /\ sentResults[k].sock # sentResults[k].arr
        /\ sockets[sentResults[k].arr] = "CLOSED"

(***************************************************************************)
(* Transport: properties                                                   *)
(***************************************************************************)

\* C7: the Nth of N consecutive unclean closes with no successful open in
\* between schedules its reconnect after min(1000 * 2^(N-1), 10000) ms.
C7_NthReconnectDelay ==
    uncleanRun >= 1 =>
        lastDelay = Min(BaseDelay * (2 ^ (uncleanRun - 1)), maxReconnectDelay)

\* C8: a socket open resets the attempt counter, so the first unclean close
\* after any successful connection schedules its reconnect after 1000 ms.
C8_BaseDelayAfterOpen ==
    uncleanSinceOpen = 1 => lastDelay = BaseDelay

\* C9: a clean close of the Transport's connection schedules no reconnect:
\* after it no new socket is created until connect() is called explicitly
\* (the one step that creates a socket and leaves the timers alone).
C9_NoReconnectAfterCleanClose ==
    [][(awaitingConnect /\ Len(sockets') > Len(sockets)) => timers' = timers]_vars

\* C10: connect() called while a connection attempt is outstanding creates no
\* second concurrent attempt: at most one socket is connecting at a time.
C10_SingleAttempt ==
    Cardinality({i \in DOMAIN sockets : sockets[i] = "CONNECTING"}) <= 1

\* C11: a message passed to send() while this.ws is not open is neither
\* transmitted nor queued: the step that hands it over transmits nothing, and
\* a result dropped that way is never transmitted later, whatever reconnects.
C11_NotSentNotQueued ==
    [][/\ (/\ webviewInbox # <<>>
           /\ webviewInbox' = Tail(webviewInbox)
           /\ ~(ws # 0 /\ sockets[ws] = "OPEN"))
            => sentResults' = sentResults
       /\ \A c \in CallIds :
             phase[c] = "dropped" =>
                /\ phase'[c] = "dropped"
                /\ \A k \in DOMAIN sentResults' : sentResults'[k].by # c
      ]_vars

\* Call 1's result was dropped, the Transport has an open connection again
\* and transmitted a later result on it.
C11_Witness ==
    /\ phase[1] = "dropped"
    /\ ws # 0
    /\ sockets[ws] = "OPEN"
    /\ \E k \in DOMAIN sentResults : sentResults[k].by = 2

C13_UnparsableDiscarded ==
    [][/\ (lastMessage' # lastMessage /\ lastMessage'.payload = "not json") =>
             /\ lastMessage'.calls = <<>>
             /\ sockets'[lastMessage'.sock] = "OPEN"
             /\ UNCHANGED <<sockets, ws, lastStatus, reconnectAttempts, timers,
                            statusHist, onMessageCallbacks, onStatusCallbacks>>
       /\ (/\ lastMessage' # lastMessage
           /\ lastMessage'.payload # "not json"
           /\ lastMessage'.sock \in parseFailures) =>
             /\ Len(lastMessage'.calls) = Len(onMessageCallbacks)
             /\ lastMessage'.calls # <<>>
      ]_vars

\* A message was delivered on a socket that had received an unparsable payload.
C13_Witness ==
    /\ lastMessage.sock \in parseFailures
    /\ lastMessage.payload = "{type:ping}"
    /\ lastMessage.calls # <<>>
    /\ sockets[lastMessage.sock] = "OPEN"

\* C14: the statuses broadcast follow connecting -> connected -> disconnected
\* -> connecting: of any two statuses broadcast one after the other,
\* 'connected' comes only after 'connecting', 'connecting' never after
\* 'connected', and the two are never the same.
C14_StatusStateMachine ==
    /\ lastStatus = "connected" => prevStatus = "connecting"
    /\ ~(prevStatus = "connected" /\ lastStatus = "connecting")
    /\ lastStatus # "none" => prevStatus # lastStatus

\* C15: every unclean close schedules a reconnect, however many attempts have
\* failed, and with the timer firing in the end a new connection attempt
\* follows with no caller action.
C15_AlwaysRetries ==
    /\ [][\A i \in DOMAIN sockets :
             (sockets[i] # "CLOSED" /\ sockets'[i] = "CLOSED"
                 /\ uncleanRun' > uncleanRun)
                => Len(timers') = Len(timers) + 1]_vars
    /\ \A n \in 0..(MaxSockets - 1) :
          (Len(timers) > 0 /\ Len(sockets) = n) ~> (Len(sockets) > n)

\* Two attempts in a row failed and the timers made a third.
C15_Witness ==
    /\ uncleanRun >= 2
    /\ reconnectAttempts >= 2
    /\ Len(sockets) >= 3
    /\ sockets[3] = "CONNECTING"

(***************************************************************************)
(* Timeline reducer: properties                                            *)
(***************************************************************************)

\* The Steps with id step_id of every Interaction of a timeline, node by node.
StepsWithId(tl, step_id) ==
    [k \in DOMAIN tl |->
        [id |-> tl[k].id,
         steps |-> SelectSeq(tl[k].steps, LAMBDA step : step.id = step_id)]]

\* C16: after any sequence of events the timeline holds no two Interaction
\* nodes with the same id, the sentinel SYSTEM included.
C16_UniqueInteractions ==
    \A j, k \in DOMAIN timeline : timeline[j].id = timeline[k].id => j = k

\* Both Interactions exist and a second event went to the SYSTEM node that
\* the first had created.
C16_Witness ==
    /\ Len(timeline) = 2
    /\ \E k \in DOMAIN timeline :
          timeline[k].id = "SYSTEM" /\ Len(timeline[k].logs) >= 2

\* C17: after any sequence of events, plans with arbitrary step lists
\* included, no Interaction holds two Steps with the same id.
C17_UniqueSteps ==
    \A n \in DOMAIN timeline :
        \A j, k \in DOMAIN timeline[n].steps :
            timeline[n].steps[j].id = timeline[n].steps[k].id => j = k

\* C18: from any Session state, update_step {id: S, status: "done"} applied
\* twice leaves Step S (status and logs) as applying it once does.
C18_UpdateStepIdempotent ==
    \A msg \in Events :
        (msg.type = "update_step" /\ msg.id # "" /\ msg.status = "done") =>
            LET once == OnMessageHandler(Session, msg)
                twice == OnMessageHandler(once, msg)
            IN StepsWithId(twice.timeline, msg.id) = StepsWithId(once.timeline, msg.id)

\* C19: for every event the reducer handles, applying it twice in a row gives
\* the same messages, timeline and plan as applying it once.
C19_EveryEventIdempotent ==
    \A msg \in Events :
        OnMessageHandler(OnMessageHandler(Session, msg), msg)
            = OnMessageHandler(Session, msg)

\* C20: example scenario 2 applied to the empty Session yields exactly one
\* Interaction, whose plan goal is G, with exactly one Step, of id 1 and
\* status done.
C20_Scenario2 ==
    scenario = Len(Scenario2) =>
        /\ Len(timeline) = 1
        /\ timeline[1].plan # Null
        /\ timeline[1].plan.refined_goal = "G"
        /\ Len(timeline[1].steps) = 1
        /\ timeline[1].steps[1].id = "1"
        /\ timeline[1].steps[1].status = "done"


(***************************************************************************)
(* Timeline reducer: frame, order and error properties                     *)
(***************************************************************************)

\* The App's subscriber handles a message in this step.
Handled == eventCount' = eventCount + 1

\* The ids of the Steps of the Interactions an event with interaction_id
\* addresses: the named Interaction, or every Interaction without a name.
StepIdsAddressed(tl, interaction_id) ==
    UNION {{tl[n].steps[j].id : j \in DOMAIN tl[n].steps} :
             n \in {k \in DOMAIN tl : interaction_id = "" \/ tl[k].id = interaction_id}}

\* The sequence a starts the sequence b.
IsPrefix(a, b) == Len(a) <= Len(b) /\ \A k \in DOMAIN a : a[k] = b[k]

\* How far a Step status is along pending -> in_progress -> {done | failed}.
Rank(st) ==
    CASE st = "pending" -> 0
      [] st = "in_progress" -> 1
      [] OTHER -> 2

\* C21: an update_step event whose step id matches no Step of the Interaction
\* it addresses (of any Interaction when it names none) leaves the message
\* list, the timeline and the current plan unchanged, and nothing is thrown.
C21_MissingStepIgnored ==
    [][(/\ Handled
        /\ lastEvent'.type = "update_step"
        /\ lastEvent'.id \notin StepIdsAddressed(timeline, lastEvent'.interaction_id))
       => (/\ messages' = messages
           /\ timeline' = timeline
           /\ currentPlan' = currentPlan
           /\ ~thrown')]_vars

\* C22: over any sequence of events, the status of a Step of an Interaction
\* stays as it is or moves forward along pending -> in_progress ->
\* {done | failed}; no event moves it backwards.
C22_StatusOnlyAdvances ==
    [][\A n \in DOMAIN timeline :
          \A j \in DOMAIN timeline[n].steps, k \in DOMAIN timeline'[n].steps :
              timeline'[n].steps[k].id = timeline[n].steps[j].id =>
                  \/ timeline'[n].steps[k].status = timeline[n].steps[j].status
                  \/ Rank(timeline'[n].steps[k].status)
                        > Rank(timeline[n].steps[j].status)]_vars

\* C23: when update_plan or request_approval delivers a plan, the Interaction
\* that takes the plan gets one Step per step of the plan, with the plan's
\* id, title and status; a Step whose id the Interaction had before keeps the
\* logs of the earlier Step of that id, entry for entry, and a Step that is
\* new starts with no logs.
C23_PlanSyncKeepsLogs ==
    [][(/\ Handled
        /\ lastEvent'.type \in {"update_plan", "request_approval"}
        /\ lastEvent'.payload # Null)
       => \E n \in DOMAIN timeline' :
             LET plan == lastEvent'.payload
                 planned == IF "steps" \in DOMAIN plan THEN plan.steps ELSE <<>>
                 before == IF n \in DOMAIN timeline THEN timeline[n].steps ELSE <<>>
                 after == timeline'[n].steps
             IN /\ lastEvent'.interaction_id # "" =>
                       timeline'[n].id = lastEvent'.interaction_id
                /\ timeline'[n].plan = plan
                /\ Len(after) = Len(planned)
                /\ \A k \in DOMAIN after :
                      /\ after[k].id = planned[k].id
                      /\ after[k].title = planned[k].title
                      /\ after[k].status = planned[k].status
                      /\ IF \E j \in DOMAIN before : before[j].id = after[k].id
                         THEN \E j \in DOMAIN before :
                                 /\ before[j].id = after[k].id
                                 /\ after[k].logs = before[j].logs
                         ELSE after[k].logs = <<>>]_vars

\* A plan was just delivered to an Interaction one of whose Steps kept its
\* logs while another came new with none.
C23_Witness ==
    /\ lastEvent # Null
    /\ lastEvent.type \in {"update_plan", "request_approval"}
    /\ \E n \in DOMAIN timeline :
          /\ timeline[n].plan = lastEvent.payload
          /\ \E j, k \in DOMAIN timeline[n].steps :
                /\ Len(timeline[n].steps[j].logs) > 0
                /\ timeline[n].steps[k].logs = <<>>

\* C24: a LogEntry appended to the orphan logs of an Interaction or to the
\* logs of one of its Steps stays in the timeline: after every event the
\* Interaction still has its earlier orphan logs, and still has a Step of the
\* same id with the Step's earlier logs, as the start of the present ones.
C24_LogsAreKept ==
    [][\A n \in DOMAIN timeline :
          /\ n \in DOMAIN timeline'
          /\ IsPrefix(timeline[n].logs, timeline'[n].logs)
          /\ \A j \in DOMAIN timeline[n].steps :
                Len(timeline[n].steps[j].logs) > 0 =>
                    \E k \in DOMAIN timeline'[n].steps :
                        /\ timeline'[n].steps[k].id = timeline[n].steps[j].id
                        /\ IsPrefix(timeline[n].steps[j].logs,
                                    timeline'[n].steps[k].logs)]_vars

\* C25: a tool_end whose call_id is that of no tool trace row leaves the
\* message list, and with it the status of every tool trace, unchanged.
C25_UnknownToolEndIsNoOp ==
    [][(/\ Handled
        /\ lastEvent'.type = "tool_end"
        /\ \A k \in DOMAIN messages :
              messages[k].row_type = "tool_trace" => messages[k].id # lastEvent'.id)
       => messages' = messages]_vars

\* A tool_end with an unknown call_id was just handled while the trace of
\* another call is running.
C25_Witness ==
    /\ lastEvent # Null
    /\ lastEvent.type = "tool_end"
    /\ \A k \in DOMAIN messages : messages[k].id # lastEvent.id
    /\ \E k \in DOMAIN messages :
          messages[k].row_type = "tool_trace" /\ messages[k].status = "running"

\* C26: a message whose type or command the subscriber has no branch for
\* changes neither the message list, the timeline, the current plan, the
\* system status nor the status text, and throws nothing, so that the next
\* message is handled as usual.
C26_UnhandledChangesNothing ==
    [][(Handled /\ lastEvent'.type \in UnhandledTypes)
       => (/\ messages' = messages
           /\ timeline' = timeline
           /\ currentPlan' = currentPlan
           /\ systemStatus' = systemStatus
           /\ appStatus' = appStatus
           /\ ~thrown')]_vars

\* An unhandled message was just received by a Session that has rows, a
\* timeline and a plan.
C26_Witness ==
    /\ lastEvent # Null
    /\ lastEvent.type \in UnhandledTypes
    /\ messages # <<>>
    /\ timeline # <<>>
    /\ currentPlan # Null

\* C27: no message makes the subscriber or one of its state updaters throw,
\* whatever is missing from its payload.
C27_NeverThrows == ~thrown

\* C28: the status of the App is the text of connecting, connected or
\* disconnected, and changes only in a step in which the Transport
\* broadcasts a status (a socket is created, opens or closes).
C28_StatusFollowsTransport ==
    [][/\ appStatus' \in {StatusText("connecting"), StatusText("connected"),
                          StatusText("disconnected")}
       /\ appStatus' # appStatus => sockets' # sockets]_vars

\* C29: for every connection, the messages handed to the App's subscriber
\* are the messages parsed from that connection, each once, in the order
\* they were received.
C29_AppliedOnceInOrder ==
    \A i \in DOMAIN sockets :
        SelectSeq(applied, LAMBDA m : m.sock = i)
            = SelectSeq(received, LAMBDA m : m.sock = i /\ m.n # 0)

\* Two messages of one connection were received and handed on.
C29_Witness ==
    /\ Len(applied) = 2
    /\ applied[1].sock = applied[2].sock
    /\ applied[1].n < applied[2].n

\* C30: a debug event with a step_id, or an update_step, that names a Step
\* the Interaction it is filed under does not have yet, leaves that
\* Interaction with a Step of that id, of status pending and the default
\* title, whose logs are the LogEntry of the event.
C30_ImplicitStep ==
    [][(/\ Handled
        /\ lastEvent'.type \in {"debug", "update_step"}
        /\ lastEvent'.id # ""
        /\ \A n \in DOMAIN timeline :
              timeline[n].id = (IF lastEvent'.interaction_id = "" THEN "SYSTEM"
                                ELSE lastEvent'.interaction_id)
                  => \A j \in DOMAIN timeline[n].steps :
                        timeline[n].steps[j].id # lastEvent'.id)
       => \E n \in DOMAIN timeline' :
             /\ timeline'[n].id = (IF lastEvent'.interaction_id = "" THEN "SYSTEM"
                                   ELSE lastEvent'.interaction_id)
             /\ \E k \in DOMAIN timeline'[n].steps :
                   /\ timeline'[n].steps[k].id = lastEvent'.id
                   /\ timeline'[n].steps[k].status = "pending"
                   /\ timeline'[n].steps[k].title
                         = (IF lastEvent'.id = "1" THEN "Step 1" ELSE "Step 2")
                   /\ Len(timeline'[n].steps[k].logs) = 1]_vars


(***************************************************************************)
(* Timeline reducer: rows, traces and the targets of an event              *)
(***************************************************************************)

\* The Interaction an event is filed under by its interaction_id.
TargetId(interaction_id) ==
    IF interaction_id = "" THEN "SYSTEM" ELSE interaction_id

\* C31: after a step_start for step id S there is exactly one step row for
\* S, it is in progress and expanded, and every other step row is collapsed.
C31_StepStartUpserts ==
    [][(Handled /\ lastEvent'.type = "step_start")
       => LET rows == {k \in DOMAIN messages' :
                          /\ messages'[k].row_type = "step_container"
                          /\ messages'[k].id = lastEvent'.id}
          IN /\ Cardinality(rows) = 1
             /\ \A k \in DOMAIN messages' :
                   messages'[k].row_type = "step_container" =>
                       IF k \in rows
                       THEN /\ messages'[k].status = "in_progress"
                            /\ ~messages'[k].isCollapsed
                       ELSE messages'[k].isCollapsed]_vars

\* C32: a tool trace that has reached success or failure keeps that status
\* whatever tool_end comes later, and a tool_end for a trace does not leave
\* it running.
C32_TraceStatusIsFinal ==
    [][\A k \in DOMAIN messages :
          messages[k].row_type = "tool_trace" =>
              /\ messages[k].status \in {"success", "failure"} =>
                    messages'[k].status = messages[k].status
              /\ (Handled /\ lastEvent'.type = "tool_end"
                    /\ lastEvent'.id = messages[k].id) =>
                    messages'[k].status \in {"success", "failure"}]_vars

\* C33: after an update_step {id: S, status: X} the Interaction the event
\* addresses has a Step S of status X, also when S was not known before.
C33_UpdateStepSetsStatus ==
    [][(Handled /\ lastEvent'.type = "update_step" /\ lastEvent'.id # "")
       => \E n \in DOMAIN timeline' :
             /\ timeline'[n].id = TargetId(lastEvent'.interaction_id)
             /\ \E k \in DOMAIN timeline'[n].steps :
                   /\ timeline'[n].steps[k].id = lastEvent'.id
                   /\ timeline'[n].steps[k].status = lastEvent'.status]_vars

\* The Steps, as <<Interaction id, Step id>>, whose status this step changes.
StatusChanged ==
    {p \in {timeline[n].id : n \in DOMAIN timeline} \X StepIds :
        \E n \in DOMAIN timeline :
            /\ timeline[n].id = p[1]
            /\ \E j \in DOMAIN timeline[n].steps, k \in DOMAIN timeline'[n].steps :
                  /\ timeline[n].steps[j].id = p[2]
                  /\ timeline'[n].steps[k].id = p[2]
                  /\ timeline'[n].steps[k].status # timeline[n].steps[j].status}

\* The Steps, as <<Interaction id, Step id>>, that this step appends a
\* LogEntry to, Steps it creates for the LogEntry included.
StepLogged ==
    {p \in {timeline'[n].id : n \in DOMAIN timeline'} \X StepIds :
        \E n \in DOMAIN timeline' :
            /\ timeline'[n].id = p[1]
            /\ \E k \in DOMAIN timeline'[n].steps :
                  /\ timeline'[n].steps[k].id = p[2]
                  /\ Len(timeline'[n].steps[k].logs) > 0
                  /\ \A j \in (IF n \in DOMAIN timeline
                               THEN DOMAIN timeline[n].steps ELSE {}) :
                        timeline[n].steps[j].id = p[2] =>
                            Len(timeline'[n].steps[k].logs)
                                > Len(timeline[n].steps[j].logs)}

\* C34: an update_step changes the status of at most one Step, and that
\* Step is the one that receives the STEP_UPDATE LogEntry, in the same
\* Interaction, with and without an interaction_id on the event.
C34_StatusAndLogSameStep ==
    [][(Handled /\ lastEvent'.type = "update_step" /\ lastEvent'.id # "")
       => (/\ Cardinality(StatusChanged) <= 1
           /\ StatusChanged \subseteq StepLogged)]_vars

\* The ids of the Interactions whose orphan logs this step appends to.
NodeLogged ==
    {timeline'[n].id : n \in {k \in DOMAIN timeline' :
        Len(timeline'[k].logs) > (IF k \in DOMAIN timeline
                                  THEN Len(timeline[k].logs) ELSE 0)}}

\* The ids of the Interactions whose plan, title or steps this step replaces.
NodePlanned ==
    {timeline'[n].id : n \in {k \in DOMAIN timeline' :
        IF k \in DOMAIN timeline
        THEN \/ timeline'[k].plan # timeline[k].plan
             \/ timeline'[k].title # timeline[k].title
             \/ timeline'[k].steps # timeline[k].steps
        ELSE timeline'[k].plan # Null}}

\* C35: an update_plan or request_approval replaces the plan, title and
\* steps of no other Interaction than the one that receives its
\* PLAN_UPDATE / PLAN_APPROVAL_NEEDED LogEntry, and that Interaction then
\* carries the plan of the event, with and without an interaction_id.
C35_PlanAndLogSameInteraction ==
    [][(/\ Handled
        /\ lastEvent'.type \in {"update_plan", "request_approval"}
        /\ lastEvent'.payload # Null)
       => (/\ NodePlanned \subseteq NodeLogged
           /\ \A n \in DOMAIN timeline' :
                 timeline'[n].id \in NodeLogged =>
                     timeline'[n].plan = lastEvent'.payload)]_vars


(***************************************************************************)
(* Transport: sockets, timers and the status seen by callers               *)
(***************************************************************************)

\* C36: at every moment at most one socket of the Transport is connecting
\* or open and at most one reconnect timer is pending, whatever the order
\* of connect() calls, socket events and timer firings.
C36_OneSocketOneTimer ==
    /\ Cardinality({i \in DOMAIN sockets : sockets[i] \in {"CONNECTING", "OPEN"}}) <= 1
    /\ Len(timers) <= 1

\* C37: the last status the Transport broadcast is 'connected' exactly when
\* the socket send() would use is open.
C37_ConnectedIffSendable ==
    (lastStatus = "connected") <=> (ws # 0 /\ sockets[ws] = "OPEN")


\* C38: once the session is waiting for approval with a plan at hand, it
\* stays so: no inbound message and no status of the Transport takes it out
\* of waiting_approval or takes the plan away (the user's approve and reject
\* are not steps of this model).
C38_WaitsForApproval ==
    [][(appStatus = "waiting_approval" /\ currentPlan # Null)
       => (appStatus' = "waiting_approval" /\ currentPlan' # Null)]_vars

\* C39: while the connection is up and reported as connected, the enabled
\* flag of the last toggle_tts sent to the agent is the user's current
\* setting.
C39_TtsFlagIsCurrent ==
    (ws # 0 /\ sockets[ws] = "OPEN" /\ lastStatus = "connected")
        => ttsSent = <<ttsEnabled>>

(***************************************************************************)
(* BackendManager: properties                                              *)
(***************************************************************************)

\* C40: at most one backend process spawned by the manager is alive (a
\* process the manager has killed is not counted), and isRunning() is true
\* whenever one is alive.
C40_OneBackendAlive ==
    /\ Cardinality({i \in DOMAIN procs : procs[i] = "alive"}) <= 1
    /\ (\E i \in DOMAIN procs : procs[i] = "alive") => IsRunning

=============================================================================
